---------------------------- MODULE Spec2Model ----------------------------
(***************************************************************************)
(* A model of the Outcome Backcasting engine (src/backcast_engine.py):    *)
(* the plan/step records, the mutators add_step, update_step and          *)
(* delete_step, the graph analytics get_next_actions, get_critical_path,  *)
(* get_blockers and calculate_progress, and save_plan / load_plan.        *)
(*                                                                         *)
(* A Step is modelled by the fields the engine's operations read or       *)
(* write: id, title, type, priority, status, dependencies, risks,         *)
(* created_at, updated_at, completed_at.  description, estimated_duration,*)
(* resources_needed, success_criteria and notes are carried by the code   *)
(* but read by none of the operations modelled here.                      *)
(*                                                                         *)
(* Python enum members are modelled by their member names ("COMPLETED"),  *)
(* their serialised tags by the lower-case values ("completed").          *)
(* Timestamps (datetime.now().isoformat()) are modelled by the reading of *)
(* a clock, a natural number; the empty string "" is NoTime and the       *)
(* Python value None is NoneTime.                                          *)
(***************************************************************************)
EXTENDS Integers, Sequences, FiniteSets, TLC

VARIABLES
    plan,     \* the BackcastPlan the caller holds (current_plan)
    now,      \* the reading of the clock, datetime.now()
    disk,     \* data_dir: file name -> the documents stored (none, or one)
    saved,    \* history: file name -> the plans save_plan wrote (none, or one)
    last,     \* history: the last operation performed and its arguments
    prev      \* history: the plan before the last operation

vars == <<plan, now, disk, saved, last, prev>>

----------------------------------------------------------------------------
(* Bounds of the model *)

\* the most steps a plan holds
MaxSteps == 3
\* the most steps a plan holds where every status and priority is explored
MaxReadySteps == 2
\* the largest id add_step assigns
MaxId == 3
\* the most steps a plan holds where plans are saved and loaded
MaxPersistSteps == 1
\* the last reading of the clock
MaxClock == 2
\* the last reading of the clock at which a plan is edited
MaxEditClock == 4
\* the greatest number of phases generate_steps is asked for
MaxPhases == 2
\* the last reading of the clock at which a plan with several dependencies
\* is edited
MaxCascadeClock == 5
\* the greatest number of step objects in a reply of the language model
MaxAiSteps == 3
\* the greatest number of steps of a plan that is worked on
MaxWorkSteps == 3

----------------------------------------------------------------------------
(* The entity model *)

NoTime == 0
NoneTime == 0 - 1

StepStatus == {"NOT_STARTED", "IN_PROGRESS", "COMPLETED", "BLOCKED", "SKIPPED"}
Priority == {"CRITICAL", "HIGH", "MEDIUM", "LOW"}
StepType == {"MILESTONE", "ACTION", "DECISION", "DEPENDENCY", "RISK_MITIGATION"}

\* Enum.value: the string tag of an enum member
StepStatusValue(e) ==
    CASE e = "NOT_STARTED" -> "not_started"
      [] e = "IN_PROGRESS" -> "in_progress"
      [] e = "COMPLETED" -> "completed"
      [] e = "BLOCKED" -> "blocked"
      [] e = "SKIPPED" -> "skipped"

PriorityValue(e) ==
    CASE e = "CRITICAL" -> "critical"
      [] e = "HIGH" -> "high"
      [] e = "MEDIUM" -> "medium"
      [] e = "LOW" -> "low"

StepTypeValue(e) ==
    CASE e = "MILESTONE" -> "milestone"
      [] e = "ACTION" -> "action"
      [] e = "DECISION" -> "decision"
      [] e = "DEPENDENCY" -> "dependency"
      [] e = "RISK_MITIGATION" -> "risk_mitigation"

\* Step.__post_init__: created_at is stamped when empty, updated_at always
StepPostInit(s, t) ==
    [s EXCEPT !.created_at = IF s.created_at = NoTime THEN t ELSE s.created_at,
              !.updated_at = t]

\* Step(...): the dataclass constructor, with the defaults of the fields the
\* caller leaves out (created_at = "", updated_at = "", completed_at = None),
\* followed by __post_init__
Step(id, title, type, priority, status, dependencies, risks, t) ==
    StepPostInit([id |-> id, title |-> title, type |-> type,
                  priority |-> priority, status |-> status,
                  dependencies |-> dependencies, risks |-> risks,
                  created_at |-> NoTime, updated_at |-> NoTime,
                  completed_at |-> NoneTime], t)

\* Risk(...)
Risk(description, probability, impact, mitigation) ==
    [description |-> description, probability |-> probability,
     impact |-> impact, mitigation |-> mitigation]

\* Outcome(...): created_at is stamped when empty
Outcome(title, created_at, t) ==
    [title |-> title,
     created_at |-> IF created_at = NoTime THEN t ELSE created_at]

\* BackcastPlan(...): created_at is stamped when empty, updated_at always
BackcastPlan(outcome, steps, created_at, updated_at, t) ==
    [outcome |-> outcome, steps |-> steps,
     created_at |-> IF created_at = NoTime THEN t ELSE created_at,
     updated_at |-> t]

\* BackcastEngine.create_plan
create_plan(outcome, t) == BackcastPlan(outcome, <<>>, NoTime, NoTime, t)

----------------------------------------------------------------------------
(* Helpers on sequences *)

Range(s) == {s[i] : i \in DOMAIN s}

\* max(values, default=d) over a finite set of integers
MaxOf(S, d) ==
    IF S = {} THEN d
    ELSE LET x == CHOOSE y \in S : \A z \in S : z <= y IN x

\* [d for d in deps if d != step_id]
WithoutId(deps, step_id) == SelectSeq(deps, LAMBDA d : d # step_id)

----------------------------------------------------------------------------
(* The scaffold generator.  A title built by an f-string is the tuple of its *)
(* parts.                                                                     *)

\* list(reversed(steps))
Reversed(steps) == [i \in DOMAIN steps |-> steps[Len(steps) + 1 - i]]

\* "Phase 0": the final milestone, Step(id=1, ...)
OutcomeMilestone(p, t) ==
    Step(1, <<"Achieve: ", p.outcome.title>>, "MILESTONE", "CRITICAL",
         "NOT_STARTED", <<>>, <<>>, t)

\* the milestone of a phase, Step(id=step_id, ...)
PhaseMilestone(phase, num_major_phases, step_id, previous_step_id, t) ==
    Step(step_id, <<"Phase ", phase, " Complete">>, "MILESTONE", "HIGH",
         "NOT_STARTED",
         IF phase < num_major_phases THEN <<step_id + 1>>
         ELSE <<previous_step_id>>,
         <<>>, t)

\* an action of a phase, Step(id=step_id, ...)
PhaseAction(phase, action_num, step_id, milestone_id, t) ==
    Step(step_id, <<"Phase ", phase, " - Action ", action_num>>, "ACTION",
         "MEDIUM", "NOT_STARTED",
         IF action_num = 1 THEN <<milestone_id>> ELSE <<step_id - 1>>,
         <<>>, t)

\* two actions per phase
ActionNumsTwo == <<1, 2>>

\* for action_num in range(1, 4)
ActionNums == <<1, 2, 3>>

\* the steps one pass of the phase loop appends: the milestone with id
\* step_id, then the actions
PhaseSteps(phase, num_major_phases, step_id, previous_step_id, t) ==
    <<PhaseMilestone(phase, num_major_phases, step_id, previous_step_id, t)>>
      \o [k \in DOMAIN ActionNums |->
            PhaseAction(phase, ActionNums[k], step_id + k, step_id, t)]

RECURSIVE PhaseLoop(_, _, _, _, _)
\* for phase in range(num_major_phases, 0, -1), from phase on: steps holds
\* what has been appended, the next id is Len(steps) + 1
PhaseLoop(phase, num_major_phases, steps, previous_step_id, t) ==
    IF phase = 0 THEN steps
    ELSE LET step_id == Len(steps) + 1
         IN PhaseLoop(phase - 1, num_major_phases,
                      steps \o PhaseSteps(phase, num_major_phases, step_id,
                                          previous_step_id, t),
                      step_id, t)

\* "Phase 1": the starting point, Step(id=step_id, ...)
InitialStep(step_id, t) ==
    Step(step_id, <<"Initialize Project">>, "ACTION", "CRITICAL",
         "NOT_STARTED", <<>>, <<>>, t)

\* generate_steps up to the reversal: the list steps
ScaffoldSteps(p, num_major_phases, t) ==
    LET phases == PhaseLoop(num_major_phases, num_major_phases,
                            <<OutcomeMilestone(p, t)>>, 1, t)
    IN Append(phases, InitialStep(Len(phases) + 1, t))

\* id_mapping = {step.id: idx for idx, step in enumerate(steps, 1)}: for an
\* id held by several steps the last position wins
IdMapping(steps) ==
    [id \in {steps[i].id : i \in DOMAIN steps} |->
        CHOOSE i \in DOMAIN steps :
            /\ steps[i].id = id
            /\ \A j \in DOMAIN steps : steps[j].id = id => j <= i]

\* the dependency id left as it was before the reversal
MappedIdUnmapped(id_mapping, dep_id) == dep_id

\* id_mapping.get(dep_id, dep_id)
MappedId(id_mapping, dep_id) ==
    IF dep_id \in DOMAIN id_mapping THEN id_mapping[dep_id] ELSE dep_id

\* the renumbering loop of generate_steps over the reversed list
Renumbered(steps) ==
    LET id_mapping == IdMapping(steps)
    IN [idx \in DOMAIN steps |->
          [steps[idx] EXCEPT
              !.id = idx,
              !.dependencies = [k \in DOMAIN @ |-> MappedId(id_mapping, @[k])]]]

\* BackcastEngine.generate_steps
generate_steps(p, num_major_phases, t) ==
    [p EXCEPT !.steps = Renumbered(Reversed(ScaffoldSteps(p, num_major_phases, t)))]

----------------------------------------------------------------------------
(* The plan mutator *)

\* add_step numbering the new step by the count of the steps
add_step_counting(p, step, t) ==
    LET s == IF step.id = 0
             THEN [step EXCEPT !.id = Len(p.steps) + 1]
             ELSE step
    IN [p EXCEPT !.steps = Append(p.steps, s), !.updated_at = t]

\* BackcastEngine.add_step
add_step(p, step, t) ==
    LET ids == {p.steps[i].id : i \in DOMAIN p.steps}
        s == IF step.id = 0
             THEN [step EXCEPT !.id = MaxOf(ids, 0) + 1]
             ELSE step
    IN [p EXCEPT !.steps = Append(p.steps, s), !.updated_at = t]

\* setattr(step, key, value) for every key of updates that is a field of Step
ApplyUpdates(s, updates) ==
    [f \in DOMAIN s |-> IF f \in DOMAIN updates THEN updates[f] ELSE s[f]]

\* the loop body stamping completed_at on every change of status
UpdatedStepAnyStatus(s, updates, t) ==
    LET a == ApplyUpdates(s, updates)
        b == [a EXCEPT !.updated_at = t]
    IN IF "status" \in DOMAIN updates
       THEN [b EXCEPT !.completed_at = t]
       ELSE b

\* the body of update_step's loop for the step that matches
UpdatedStep(s, updates, t) ==
    LET a == ApplyUpdates(s, updates)
        b == [a EXCEPT !.updated_at = t]
    IN IF "status" \in DOMAIN updates /\ updates["status"] = "COMPLETED"
       THEN [b EXCEPT !.completed_at = t]
       ELSE b

\* the index of the first step whose id is step_id, 0 when there is none
FirstIndexOf(steps, step_id) ==
    LET hits == {i \in DOMAIN steps : steps[i].id = step_id}
    IN IF hits = {} THEN 0 ELSE CHOOSE i \in hits : \A j \in hits : i <= j

\* update_step changing every step whose id matches
update_step_every_match(p, step_id, updates, t) ==
    LET steps2 == [i \in DOMAIN p.steps |->
                     IF p.steps[i].id = step_id
                     THEN UpdatedStep(p.steps[i], updates, t)
                     ELSE p.steps[i]]
    IN [p EXCEPT !.steps = steps2, !.updated_at = t]

\* update_step falling through to the last step when no id matches
update_step_last_when_absent(p, step_id, updates, t) ==
    LET k == IF FirstIndexOf(p.steps, step_id) = 0 THEN Len(p.steps)
             ELSE FirstIndexOf(p.steps, step_id)
        steps2 == [i \in DOMAIN p.steps |->
                     IF i = k THEN UpdatedStep(p.steps[i], updates, t)
                     ELSE p.steps[i]]
    IN [p EXCEPT !.steps = steps2, !.updated_at = t]

\* BackcastEngine.update_step
update_step(p, step_id, updates, t) ==
    LET k == FirstIndexOf(p.steps, step_id)
        steps2 == [i \in DOMAIN p.steps |->
                     IF i = k THEN UpdatedStep(p.steps[i], updates, t)
                     ELSE p.steps[i]]
    IN [p EXCEPT !.steps = steps2, !.updated_at = t]

\* delete_step stamping the steps whose dependencies it changes
delete_step_restamping(p, step_id, t) ==
    LET kept == SelectSeq(p.steps, LAMBDA s : s.id # step_id)
        cleaned == [i \in DOMAIN kept |->
                      IF step_id \in Range(kept[i].dependencies)
                      THEN [kept[i] EXCEPT !.dependencies = WithoutId(@, step_id),
                                           !.updated_at = t]
                      ELSE kept[i]]
    IN [p EXCEPT !.steps = cleaned, !.updated_at = t]

\* delete_step without the cleanup of the other steps' dependencies
delete_step_no_cleanup(p, step_id, t) ==
    [p EXCEPT !.steps = SelectSeq(p.steps, LAMBDA s : s.id # step_id),
              !.updated_at = t]

\* BackcastEngine.delete_step
delete_step(p, step_id, t) ==
    LET kept == SelectSeq(p.steps, LAMBDA s : s.id # step_id)
        cleaned == [i \in DOMAIN kept |->
                      [kept[i] EXCEPT !.dependencies = WithoutId(@, step_id)]]
    IN [p EXCEPT !.steps = cleaned, !.updated_at = t]

----------------------------------------------------------------------------
(* The graph engine *)

\* {s.id for s in plan.steps if s.status == StepStatus.COMPLETED}
completed_ids(steps) ==
    {steps[i].id : i \in {j \in DOMAIN steps : steps[j].status = "COMPLETED"}}

\* priority_order of get_next_actions
priority_order(pr) ==
    CASE pr = "CRITICAL" -> 0
      [] pr = "HIGH" -> 1
      [] pr = "MEDIUM" -> 2
      [] pr = "LOW" -> 3

\* IsReady with any() in the place of all()
IsReadyAnyDependency(steps, i) ==
    /\ steps[i].status \in {"NOT_STARTED", "IN_PROGRESS"}
    /\ \/ steps[i].dependencies = <<>>
       \/ \E k \in DOMAIN steps[i].dependencies :
             steps[i].dependencies[k] \in completed_ids(steps)

\* IsReady with a dependency id that matches no step taken as met
IsReadyUnknownMet(steps, i) ==
    /\ steps[i].status \in {"NOT_STARTED", "IN_PROGRESS"}
    /\ \A k \in DOMAIN steps[i].dependencies :
          \/ steps[i].dependencies[k] \in completed_ids(steps)
          \/ \A j \in DOMAIN steps : steps[j].id # steps[i].dependencies[k]

\* the test of get_next_actions' loop on the step at index i
IsReady(steps, i) ==
    /\ steps[i].status \in {"NOT_STARTED", "IN_PROGRESS"}
    /\ \A k \in DOMAIN steps[i].dependencies :
          steps[i].dependencies[k] \in completed_ids(steps)

RECURSIVE ReadyFrom(_, _)
\* the loop of get_next_actions from index i on: the indices appended, in order
ReadyFrom(steps, i) ==
    IF i > Len(steps) THEN <<>>
    ELSE IF IsReady(steps, i) THEN <<i>> \o ReadyFrom(steps, i + 1)
    ELSE ReadyFrom(steps, i + 1)

\* the sort key of the step at index i: priority_order[s.priority]
SortKey(steps, i) == priority_order(steps[i].priority)

\* InsertByKey with x put before the elements of equal key
InsertByKeyBeforeEqual(steps, sorted, x) ==
    LET before == {k \in DOMAIN sorted :
                     SortKey(steps, sorted[k]) < SortKey(steps, x)}
        n == Cardinality(before)
    IN SubSeq(sorted, 1, n) \o <<x>> \o SubSeq(sorted, n + 1, Len(sorted))

\* one insertion of a stable sort: x goes after every element whose key is
\* not greater than its own
InsertByKey(steps, sorted, x) ==
    LET before == {k \in DOMAIN sorted :
                     SortKey(steps, sorted[k]) <= SortKey(steps, x)}
        n == Cardinality(before)
    IN SubSeq(sorted, 1, n) \o <<x>> \o SubSeq(sorted, n + 1, Len(sorted))

RECURSIVE SortByKey(_, _)
\* next_actions.sort(key=...): ascending and stable
SortByKey(steps, idx) ==
    IF idx = <<>> THEN <<>>
    ELSE InsertByKey(steps, SortByKey(steps, SubSeq(idx, 1, Len(idx) - 1)),
                     idx[Len(idx)])

\* get_next_actions as the positions in plan.steps of the steps it returns
next_action_indices(steps) == SortByKey(steps, ReadyFrom(steps, 1))

\* BackcastEngine.get_next_actions
get_next_actions(p) ==
    LET idx == next_action_indices(p.steps)
    IN [k \in DOMAIN idx |-> p.steps[idx[k]]]

\* step_dict.get(step_id): {s.id: s for s in plan.steps} keeps, for an id held
\* by several steps, the last of them; the index of that step, 0 for no step
step_dict(steps, step_id) ==
    LET hits == {i \in DOMAIN steps : steps[i].id = step_id}
    IN IF hits = {} THEN 0 ELSE CHOOSE i \in hits : \A j \in hits : j <= i

RECURSIVE calculate_path_length(_, _, _, _)
RECURSIVE max_dep_length(_, _, _, _, _, _)

\* max(calculate_path_length(dep_id, memo) for dep_id in step.dependencies),
\* from the k-th dependency on, with best the maximum so far; memo is shared
\* by the calls, so each call hands its memo to the next
max_dep_length(steps, deps, k, memo, stack, best) ==
    IF k > Len(deps) THEN [memo |-> memo, val |-> best, overflow |-> FALSE]
    ELSE LET r == calculate_path_length(steps, deps[k], memo, stack)
         IN IF r.overflow THEN r
            ELSE max_dep_length(steps, deps, k + 1, r.memo, stack,
                                IF r.val > best THEN r.val ELSE best)

\* get_critical_path.calculate_path_length.  stack holds the ids whose calls
\* have not returned.  The code has no guard against a call for an id that
\* is on the stack: memo[step_id] is written only when a call returns, so
\* such a call repeats its caller's descent and never returns, and the
\* interpreter ends it by raising RecursionError at its recursion limit.
calculate_path_length(steps, step_id, memo, stack) ==
    IF step_id \in DOMAIN memo
    THEN [memo |-> memo, val |-> memo[step_id], overflow |-> FALSE]
    ELSE LET i == step_dict(steps, step_id)
         IN IF i = 0 \/ steps[i].dependencies = <<>>
            THEN [memo |-> memo @@ (step_id :> 1), val |-> 1,
                  overflow |-> FALSE]
            ELSE IF step_id \in stack
            THEN [memo |-> memo, val |-> 0, overflow |-> TRUE]
            ELSE LET r == max_dep_length(steps, steps[i].dependencies, 1,
                                         memo, stack \cup {step_id}, 0)
                 IN IF r.overflow THEN r
                    ELSE [memo |-> r.memo @@ (step_id :> r.val + 1),
                          val |-> r.val + 1, overflow |-> FALSE]

RECURSIVE path_lengths_from(_, _, _, _)
\* the dict comprehension path_lengths from the k-th step on
path_lengths_from(steps, k, memo, lengths) ==
    IF k > Len(steps)
    THEN [lengths |-> lengths, overflow |-> FALSE]
    ELSE LET r == calculate_path_length(steps, steps[k].id, memo, {})
         IN IF r.overflow THEN [lengths |-> lengths, overflow |-> TRUE]
            ELSE path_lengths_from(steps, k + 1, r.memo,
                     [x \in (DOMAIN lengths) \cup {steps[k].id} |->
                        IF x = steps[k].id THEN r.val ELSE lengths[x]])

\* the empty dict
EmptyDict == [x \in {} |-> 0]

\* path_lengths of get_critical_path: step id -> length
path_lengths(steps) == path_lengths_from(steps, 1, EmptyDict, EmptyDict)

\* get_critical_path as the positions in plan.steps of the steps it returns
critical_indices(steps) ==
    LET pl == path_lengths(steps).lengths
        max_length == MaxOf({pl[x] : x \in DOMAIN pl}, 0)
    IN SelectSeq([i \in DOMAIN steps |-> i],
                 LAMBDA i : pl[steps[i].id] = max_length)

\* BackcastEngine.get_critical_path: the steps returned, or the exception
\* raised ("" for none)
get_critical_path(p) ==
    IF path_lengths(p.steps).overflow
    THEN [raises |-> "RecursionError", steps |-> <<>>]
    ELSE LET idx == critical_indices(p.steps)
         IN [raises |-> "", steps |-> [k \in DOMAIN idx |-> p.steps[idx[k]]]]

\* incomplete_deps of get_blockers for the step at index i, as positions
incomplete_deps(steps, i) ==
    LET deps == SelectSeq(steps[i].dependencies,
                    LAMBDA d : d \notin completed_ids(steps)
                               /\ step_dict(steps, d) # 0)
    IN [k \in DOMAIN deps |-> step_dict(steps, deps[k])]

\* get_blockers as positions in plan.steps: the blocked step and its
\* incomplete dependencies
blocker_indices(steps) ==
    LET hit == SelectSeq([i \in DOMAIN steps |-> i],
                   LAMBDA i : steps[i].status = "BLOCKED"
                              /\ incomplete_deps(steps, i) # <<>>)
    IN [k \in DOMAIN hit |->
          [step |-> hit[k], incomplete_deps |-> incomplete_deps(steps, hit[k])]]

\* BackcastEngine.get_blockers
get_blockers(p) ==
    LET b == blocker_indices(p.steps)
    IN [k \in DOMAIN b |->
          [step |-> p.steps[b[k].step],
           incomplete_deps |-> [j \in DOMAIN b[k].incomplete_deps |->
                                  p.steps[b[k].incomplete_deps[j]]]]]

\* the number of steps with the given status
CountStatus(steps, st) == Cardinality({i \in DOMAIN steps : steps[i].status = st})

\* round(x, 1) of x = 100 * completed / total, in tenths of a percent: the
\* nearest tenth, a tie going to the even one (in exact arithmetic; the code
\* rounds the binary float, which agrees for the totals explored here)
RoundTenths(completed, total) ==
    LET n == 1000 * completed
        q == n \div total
        r == n % total
    IN IF 2 * r < total THEN q
       ELSE IF 2 * r > total THEN q + 1
       ELSE IF q % 2 = 0 THEN q ELSE q + 1

\* BackcastEngine.calculate_progress: the dict returned, its keys the domain;
\* percent is in tenths of a percent
calculate_progress(p) ==
    LET total == Len(p.steps)
        completed == CountStatus(p.steps, "COMPLETED")
        in_progress == CountStatus(p.steps, "IN_PROGRESS")
        blocked == CountStatus(p.steps, "BLOCKED")
    IN IF total = 0
       THEN [percent |-> 0, completed |-> 0, total |-> 0, in_progress |-> 0,
             blocked |-> 0]
       ELSE [percent |-> RoundTenths(completed, total),
             completed |-> completed, total |-> total,
             in_progress |-> in_progress, blocked |-> blocked,
             not_started |-> total - completed - in_progress - blocked]

----------------------------------------------------------------------------
(* The persistence adapter *)

\* StepStatus(tag), Priority(tag), StepType(tag): the member with that value
StepStatusOf(tag) == CHOOSE e \in StepStatus : StepStatusValue(e) = tag

PriorityOf(tag) == CHOOSE e \in Priority : PriorityValue(e) = tag

StepTypeOf(tag) == CHOOSE e \in StepType : StepTypeValue(e) = tag

\* BackcastEngine._step_to_dict: asdict(step) with the enums as their tags
step_to_dict(s) ==
    [s EXCEPT !.type = StepTypeValue(s.type),
              !.priority = PriorityValue(s.priority),
              !.status = StepStatusValue(s.status)]

\* BackcastEngine._dict_to_step: the enums rebuilt from their tags, then
\* Step(**data), whose __post_init__ runs at time t
dict_to_step(d, t) ==
    StepPostInit([d EXCEPT !.type = StepTypeOf(d.type),
                           !.priority = PriorityOf(d.priority),
                           !.status = StepStatusOf(d.status)], t)

\* plan_dict of save_plan: the document json.dump writes
plan_dict(p) ==
    [outcome |-> p.outcome,
     steps |-> [i \in DOMAIN p.steps |-> step_to_dict(p.steps[i])],
     created_at |-> p.created_at,
     updated_at |-> p.updated_at]

\* BackcastEngine.save_plan: the files of data_dir after the call
save_plan(files, p, filename) ==
    [files EXCEPT ![filename] = <<plan_dict(p)>>]

\* the items of the document in the order json.dump writes them
DocKeys == <<"outcome", "steps", "created_at", "updated_at">>

\* what a file holds when only the first k items of doc have been written
WrittenPrefix(doc, k) == [f \in {DocKeys[i] : i \in 1 .. k} |-> doc[f]]

\* BackcastEngine.save_plan when the write stops after k items (json.dump or
\* f.write raises, or the process is interrupted): open(filepath, 'w') has
\* truncated the file and the items written so far are in it
save_plan_interrupted(files, p, filename, k) ==
    [files EXCEPT ![filename] = <<WrittenPrefix(plan_dict(p), k)>>]

\* json.load accepts what the file holds: a whole document
IsDocument(files, filename) ==
    /\ files[filename] # <<>>
    /\ DOMAIN files[filename][1] = Range(DocKeys)

\* BackcastEngine.load_plan on a file that exists, at time t
load_plan(files, filename, t) ==
    LET data == files[filename][1]
    IN BackcastPlan(Outcome(data.outcome.title, data.outcome.created_at, t),
                    [i \in DOMAIN data.steps |-> dict_to_step(data.steps[i], t)],
                    data.created_at, data.updated_at, t)

----------------------------------------------------------------------------
(* The operations as actions.  The callers (the CLI, the HTTP layer, a       *)
(* script) hold one plan, construct a Step and hand it to add_step, and      *)
(* replace their plan by what an operation returns.                          *)

Names == {"a.json", "b.json"}

NoOp == [op |-> "create_plan", step_id |-> 0, name |-> ""]

Init ==
    /\ now = 1
    /\ plan = create_plan(Outcome("goal", NoTime, 1), 1)
    /\ disk = [n \in Names |-> <<>>]
    /\ saved = [n \in Names |-> <<>>]
    /\ last = NoOp
    /\ prev = plan

\* the arguments of a Step the caller constructs
StepArgs(ids, priorities, statuses, depss, riskss) ==
    [id : ids, priority : priorities, status : statuses,
     dependencies : depss, risks : riskss]

StepIds(p) == {p.steps[i].id : i \in DOMAIN p.steps}

\* Step(...) constructed by the caller and handed to add_step; an id of 0
\* is assigned by add_step, and the model stops assigning at MaxId
DoAddStep(a, max) ==
    /\ Len(plan.steps) < max
    /\ a.id = 0 => MaxOf(StepIds(plan), 0) < MaxId
    /\ plan' = add_step(plan, Step(a.id, "Step", "ACTION", a.priority, a.status,
                                   a.dependencies, a.risks, now), now)

DoUpdateStep(step_id, updates) ==
    plan' = update_step(plan, step_id, updates, now)

DoDeleteStep(step_id) ==
    plan' = delete_step(plan, step_id, now)

\* save_plan(plan, name); saved remembers the plan written
DoSavePlan(name) ==
    /\ disk' = save_plan(disk, plan, name)
    /\ saved' = [saved EXCEPT ![name] = <<plan>>]
    /\ UNCHANGED plan

\* current_plan = load_plan(name) on a file that exists
DoLoadPlan(name) ==
    /\ disk[name] # <<>>
    /\ plan' = load_plan(disk, name, now)
    /\ UNCHANGED <<disk, saved>>

\* time passes between two operations
Tick ==
    /\ now < MaxClock
    /\ now' = now + 1
    /\ UNCHANGED <<plan, disk, saved, last, prev>>

Remember(op, step_id, name) ==
    /\ last' = [op |-> op, step_id |-> step_id, name |-> name]
    /\ prev' = plan

NoHistory == UNCHANGED <<last, prev>>

\* dependency lists a caller passes
DepChoices == {<<>>, <<1>>, <<2>>, <<1, 2>>}

----------------------------------------------------------------------------
(* SpecGraph: the plans add_step, update_step and delete_step build, with    *)
(* ids the caller supplies or add_step assigns; the analytics are functions  *)
(* of the plan reached.  None of them reads a timestamp: the clock is held.  *)

GraphAdd ==
    /\ \E a \in StepArgs(0 .. 2, {"MEDIUM"}, {"NOT_STARTED"}, DepChoices, {<<>>}) :
          DoAddStep(a, MaxSteps)
    /\ UNCHANGED <<now, disk, saved>> /\ NoHistory

GraphUpdateStatus ==
    /\ \E id \in 1 .. MaxId, st \in StepStatus :
          DoUpdateStep(id, "status" :> st)
    /\ UNCHANGED <<now, disk, saved>> /\ NoHistory

GraphUpdateDependencies ==
    /\ \E id \in 1 .. MaxId, deps \in DepChoices :
          DoUpdateStep(id, "dependencies" :> deps)
    /\ UNCHANGED <<now, disk, saved>> /\ NoHistory

GraphDelete ==
    /\ \E id \in 1 .. MaxId : DoDeleteStep(id)
    /\ UNCHANGED <<now, disk, saved>> /\ NoHistory

GraphNext ==
    \/ GraphAdd
    \/ GraphUpdateStatus
    \/ GraphUpdateDependencies
    \/ GraphDelete

SpecGraph == Init /\ [][GraphNext]_vars

----------------------------------------------------------------------------
(* SpecReady: readiness over every status and priority, on the plans made  *)
(* of steps constructed with a status and a priority, with the id left to   *)
(* add_step (0) or supplied by the caller.                                   *)

ReadyAdd ==
    /\ \E a \in StepArgs({0}, Priority, StepStatus, DepChoices, {<<>>}) :
          DoAddStep(a, MaxReadySteps)
    /\ UNCHANGED <<now, disk, saved>> /\ NoHistory

ReadyDelete ==
    /\ \E id \in 1 .. MaxId : DoDeleteStep(id)
    /\ UNCHANGED <<now, disk, saved>> /\ NoHistory

ReadyNext ==
    \/ ReadyAdd
    \/ ReadyDelete

SpecReady == Init /\ [][ReadyNext]_vars

----------------------------------------------------------------------------
(* SpecDelete: add_step and delete_step, with the plan before the last      *)
(* operation remembered.                                                     *)

DeleteAdd ==
    /\ \E a \in StepArgs(0 .. 2, {"MEDIUM"}, {"NOT_STARTED"}, DepChoices, {<<>>}) :
          /\ DoAddStep(a, MaxSteps)
          /\ Remember("add_step", a.id, "")
    /\ UNCHANGED <<now, disk, saved>>

DeleteDelete ==
    /\ \E id \in 1 .. MaxId :
          /\ DoDeleteStep(id)
          /\ Remember("delete_step", id, "")
    /\ UNCHANGED <<now, disk, saved>>

DeleteNext ==
    \/ DeleteAdd
    \/ DeleteDelete

SpecDelete == Init /\ [][DeleteNext]_vars

----------------------------------------------------------------------------
(* SpecScenario: the plan of four steps with dependencies 2 on 1, 3 on 1,   *)
(* 4 on 2 and 3, built by add_step and worked on with update_step.          *)

ScenarioDeps == <<<<>>, <<1>>, <<1>>, <<2, 3>>>>

ScenarioBuilt == Len(plan.steps) = Len(ScenarioDeps)

\* the next step of the scenario is constructed and added
ScenarioAdd ==
    /\ ~ScenarioBuilt
    /\ plan' = add_step(plan,
                        Step(0, "Step", "ACTION", "MEDIUM", "NOT_STARTED",
                             ScenarioDeps[Len(plan.steps) + 1], <<>>, now),
                        now)
    /\ UNCHANGED <<now, disk, saved>> /\ NoHistory

ScenarioUpdateStatus ==
    /\ \E id \in DOMAIN ScenarioDeps, st \in StepStatus :
          DoUpdateStep(id, "status" :> st)
    /\ UNCHANGED <<now, disk, saved>> /\ NoHistory

ScenarioNext ==
    \/ ScenarioAdd
    \/ ScenarioUpdateStatus

SpecScenario == Init /\ [][ScenarioNext]_vars

----------------------------------------------------------------------------
(* SpecPersist: a plan is edited, saved and loaded while time passes.       *)

ARisk == Risk("risk", "medium", "high", "")

\* the steps added: one of each status, and one with a dependency and a risk
PersistSteps ==
    StepArgs({0}, {"MEDIUM"}, StepStatus, {<<>>}, {<<>>})
      \cup StepArgs({0}, {"HIGH"}, {"NOT_STARTED"}, {<<1>>}, {<<ARisk>>})

PersistAdd ==
    /\ \E a \in PersistSteps :
          /\ DoAddStep(a, MaxPersistSteps)
          /\ Remember("add_step", a.id, "")
    /\ UNCHANGED <<now, disk, saved>>

PersistComplete ==
    /\ \E id \in 1 .. MaxId :
          /\ DoUpdateStep(id, "status" :> "COMPLETED")
          /\ Remember("update_step", id, "")
    /\ UNCHANGED <<now, disk, saved>>

PersistSave ==
    /\ \E n \in Names :
          /\ DoSavePlan(n)
          /\ Remember("save_plan", 0, n)
    /\ UNCHANGED now

PersistLoad ==
    /\ \E n \in Names :
          /\ DoLoadPlan(n)
          /\ Remember("load_plan", 0, n)
    /\ UNCHANGED now

PersistNext ==
    \/ PersistAdd
    \/ PersistComplete
    \/ PersistSave
    \/ PersistLoad
    \/ Tick

SpecPersist == Init /\ [][PersistNext]_vars

----------------------------------------------------------------------------
(* SpecEdit: a plan is edited by add_step, update_step and delete_step,     *)
(* each call made at a later reading of the clock than the one before it;   *)
(* last and prev remember each call and the plan it was made on.            *)

\* history: the call just made, its argument and the reading of the clock
Performed(op, step_id, arg) ==
    /\ last' = [op |-> op, step_id |-> step_id, arg |-> arg, at |-> now]
    /\ prev' = plan

\* the steps the caller submits: id unset or chosen by the caller
EditSteps ==
    StepArgs({0, 2}, {"MEDIUM"}, {"NOT_STARTED"}, {<<>>, <<1>>, <<2>>}, {<<>>})

\* the changes the callers pass to update_step(plan, step_id, **updates); the
\* last is a keyword that is no field of Step
EditUpdates ==
    {"status" :> st : st \in StepStatus}
      \cup {"dependencies" :> deps : deps \in {<<>>, <<2>>}}
      \cup {("status" :> "COMPLETED") @@ ("priority" :> "HIGH")}
      \cup {"id" :> 2}
      \cup {"colour" :> "red"}

\* the clock is read later by the next call
Later ==
    /\ now < MaxEditClock
    /\ now' = now + 1
    /\ UNCHANGED <<disk, saved>>

EditAdd ==
    /\ \E a \in EditSteps :
          /\ DoAddStep(a, MaxSteps)
          /\ Performed("add_step", a.id,
                       Step(a.id, "Step", "ACTION", a.priority, a.status,
                            a.dependencies, a.risks, now))
    /\ Later

EditUpdate ==
    /\ \E id \in 1 .. MaxId, updates \in EditUpdates :
          /\ DoUpdateStep(id, updates)
          /\ Performed("update_step", id, updates)
    /\ Later

EditDelete ==
    /\ \E id \in 1 .. MaxId :
          /\ DoDeleteStep(id)
          /\ Performed("delete_step", id, <<>>)
    /\ Later

EditNext ==
    \/ EditAdd
    \/ EditUpdate
    \/ EditDelete

SpecEdit == Init /\ [][EditNext]_vars

----------------------------------------------------------------------------
(* SpecSave: a plan is edited, saved and loaded; a save may stop before the *)
(* document is written whole.                                                *)

\* the steps added: one not started, one completed
SaveSteps == StepArgs({0}, {"MEDIUM"}, {"NOT_STARTED", "COMPLETED"}, {<<>>}, {<<>>})

SaveAdd ==
    /\ \E a \in SaveSteps :
          /\ DoAddStep(a, MaxPersistSteps)
          /\ Performed("add_step", a.id, <<>>)
    /\ UNCHANGED <<now, disk, saved>>

SaveDelete ==
    /\ \E id \in 1 .. MaxId :
          /\ DoDeleteStep(id)
          /\ Performed("delete_step", id, <<>>)
    /\ UNCHANGED <<now, disk, saved>>

SaveCompletes ==
    /\ \E n \in Names :
          /\ DoSavePlan(n)
          /\ Performed("save_plan", 0, n)
    /\ UNCHANGED now

\* save_plan raises or is interrupted: the caller keeps its plan
SaveStops ==
    /\ \E n \in Names, k \in 0 .. Len(DocKeys) - 1 :
          /\ disk' = save_plan_interrupted(disk, plan, n, k)
          /\ Performed("save_plan stopped", 0, n)
    /\ UNCHANGED <<plan, now, saved>>

SaveLoad ==
    /\ \E n \in Names :
          /\ IsDocument(disk, n)
          /\ DoLoadPlan(n)
          /\ Performed("load_plan", 0, n)
    /\ UNCHANGED now

\* load_plan on a file that holds no whole document: json.load raises
SaveLoadRaises ==
    /\ \E n \in Names :
          /\ disk[n] # <<>>
          /\ ~IsDocument(disk, n)
          /\ Performed("load_plan raised", 0, n)
    /\ UNCHANGED <<plan, now, disk, saved>>

SaveNext ==
    \/ SaveAdd
    \/ SaveDelete
    \/ SaveCompletes
    \/ SaveStops
    \/ SaveLoad
    \/ SaveLoadRaises

SpecSave == Init /\ [][SaveNext]_vars

----------------------------------------------------------------------------
(* SpecGenerate: a scaffold is generated for the plan create_plan returned,  *)
(* and the user starts and completes the steps get_next_actions returns,     *)
(* while time passes.  SpecGenerateFair: the user keeps completing a         *)
(* returned step as long as there is one.                                    *)

\* generate_steps(current_plan, num_phases) right after create_plan
GenGenerate ==
    /\ plan.steps = <<>>
    /\ \E n \in 1 .. MaxPhases :
          /\ plan' = generate_steps(plan, n, now)
          /\ Performed("generate_steps", 0, n)
    /\ UNCHANGED <<now, disk, saved>>

\* the ids of the steps get_next_actions returns
NextActionIds == {s.id : s \in Range(get_next_actions(plan))}

GenStart ==
    /\ \E id \in NextActionIds :
          /\ DoUpdateStep(id, "status" :> "IN_PROGRESS")
          /\ Performed("update_step", id, "status" :> "IN_PROGRESS")
    /\ UNCHANGED <<now, disk, saved>>

GenComplete ==
    /\ \E id \in NextActionIds :
          /\ DoUpdateStep(id, "status" :> "COMPLETED")
          /\ Performed("update_step", id, "status" :> "COMPLETED")
    /\ UNCHANGED <<now, disk, saved>>

GenNext ==
    \/ GenGenerate
    \/ GenStart
    \/ GenComplete
    \/ Tick

SpecGenerate == Init /\ [][GenNext]_vars

SpecGenerateFair == SpecGenerate /\ WF_vars(GenComplete)

----------------------------------------------------------------------------
(* SpecMark and SpecWorkFair: the user works on a plan that add_step calls   *)
(* have built.  In SpecMark any step is marked completed; in SpecWorkFair    *)
(* the user keeps completing a step get_next_actions returns as long as      *)
(* there is one.                                                             *)

\* the steps the plan was built of: ids chosen by the caller
WorkStepArgs ==
    StepArgs(1 .. 2, {"HIGH", "MEDIUM"}, {"NOT_STARTED"}, {<<>>, <<1>>}, {<<>>})

RECURSIVE PlansOf(_)
\* the plans n add_step calls leave
PlansOf(n) ==
    IF n = 0 THEN {create_plan(Outcome("goal", NoTime, 1), 1)}
    ELSE {add_step(p, Step(a.id, "Step", "ACTION", a.priority, a.status,
                           a.dependencies, a.risks, 1), 1) :
             p \in PlansOf(n - 1), a \in WorkStepArgs}

InitWork ==
    /\ now = 1
    /\ plan \in UNION {PlansOf(n) : n \in 0 .. MaxWorkSteps}
    /\ disk = [n \in Names |-> <<>>]
    /\ saved = [n \in Names |-> <<>>]
    /\ last = NoOp
    /\ prev = plan

\* update_step(current_plan, step_id, status=StepStatus.COMPLETED)
MarkCompleted ==
    /\ \E id \in 1 .. MaxId :
          /\ DoUpdateStep(id, "status" :> "COMPLETED")
          /\ Performed("update_step", id, "status" :> "COMPLETED")
    /\ UNCHANGED <<now, disk, saved>>

SpecMark == InitWork /\ [][MarkCompleted]_vars

\* the same for a step get_next_actions returns
WorkComplete ==
    /\ \E id \in NextActionIds :
          /\ DoUpdateStep(id, "status" :> "COMPLETED")
          /\ Performed("update_step", id, "status" :> "COMPLETED")
    /\ UNCHANGED <<now, disk, saved>>

SpecWorkFair == InitWork /\ [][WorkComplete]_vars /\ WF_vars(WorkComplete)

----------------------------------------------------------------------------
(* SpecAssign: every step is submitted with an unset id, as the CLI and the  *)
(* HTTP layer do, and update_step changes status or dependencies only.       *)

AssignAdd ==
    /\ \E a \in StepArgs({0}, {"MEDIUM"}, {"NOT_STARTED"}, {<<>>, <<1>>}, {<<>>}) :
          /\ DoAddStep(a, MaxSteps)
          /\ Performed("add_step", a.id, <<>>)
    /\ UNCHANGED <<now, disk, saved>>

AssignUpdate ==
    /\ \E id \in 1 .. MaxId, updates \in {"status" :> "COMPLETED", "dependencies" :> <<2>>} :
          /\ DoUpdateStep(id, updates)
          /\ Performed("update_step", id, updates)
    /\ UNCHANGED <<now, disk, saved>>

AssignDelete ==
    /\ \E id \in 1 .. MaxId :
          /\ DoDeleteStep(id)
          /\ Performed("delete_step", id, <<>>)
    /\ UNCHANGED <<now, disk, saved>>

AssignNext ==
    \/ AssignAdd
    \/ AssignUpdate
    \/ AssignDelete

SpecAssign == Init /\ [][AssignNext]_vars

----------------------------------------------------------------------------
(* SpecCascade: steps with several dependencies are added, completed and     *)
(* deleted, each call made at a later reading of the clock.                  *)

\* the dependencies the caller enters: several ids, one of them twice
CascadeDeps == {<<>>, <<2, 1, 3>>, <<1, 2, 1>>}

\* the clock is read later by the next call
CascadeLater ==
    /\ now < MaxCascadeClock
    /\ now' = now + 1
    /\ UNCHANGED <<disk, saved>>

CascadeAdd ==
    /\ \E a \in StepArgs({0}, {"MEDIUM"}, {"NOT_STARTED"}, CascadeDeps, {<<>>}) :
          /\ DoAddStep(a, MaxSteps)
          /\ Performed("add_step", a.id, <<>>)
    /\ CascadeLater

CascadeComplete ==
    /\ \E id \in 1 .. MaxId :
          /\ DoUpdateStep(id, "status" :> "COMPLETED")
          /\ Performed("update_step", id, "status" :> "COMPLETED")
    /\ CascadeLater

CascadeDelete ==
    /\ \E id \in 1 .. MaxId :
          /\ DoDeleteStep(id)
          /\ Performed("delete_step", id, <<>>)
    /\ CascadeLater

CascadeNext ==
    \/ CascadeAdd
    \/ CascadeComplete
    \/ CascadeDelete

SpecCascade == Init /\ [][CascadeNext]_vars

----------------------------------------------------------------------------
(* generate_ai_steps: the reply of the language model, parsed by json.loads  *)
(* into steps_data, is converted to Step objects, reversed and renumbered;   *)
(* without the client library or the key, or when anything raises, the       *)
(* template generator is used with five phases.                              *)

\* dict.get(key, default)
DictGet(d, key, default) == IF key \in DOMAIN d THEN d[key] ELSE default

\* Step(id=idx + 1, ...) built from step_data, idx counted from 0
AiStep(idx, step_data, t) ==
    Step(idx + 1,
         DictGet(step_data, "title", <<"Step ", idx + 1>>),
         StepTypeOf(DictGet(step_data, "type", "action")),
         PriorityOf(DictGet(step_data, "priority", "medium")),
         "NOT_STARTED",
         LET declared == SelectSeq(DictGet(step_data, "dependencies", <<>>),
                                   LAMBDA d : d < idx)
         IN [k \in DOMAIN declared |-> declared[k] + 1],
         LET rs == DictGet(step_data, "risks", <<>>)
         IN [k \in DOMAIN rs |-> Risk(rs[k], "medium", "medium", "")],
         t)

\* the loop over enumerate(steps_data)
AiSteps(steps_data, t) ==
    [k \in DOMAIN steps_data |-> AiStep(k - 1, steps_data[k], t)]

\* the renumbering loop of generate_ai_steps over the reversed list
AiRenumbered(steps) ==
    [k \in DOMAIN steps |->
        LET mapped == LET within == SelectSeq(steps[k].dependencies,
                                              LAMBDA d : d <= Len(steps))
                      IN [m \in DOMAIN within |-> Len(steps) - within[m] + 1]
        IN [steps[k] EXCEPT
              !.id = k,
              !.dependencies = SelectSeq(mapped, LAMBDA d : d < k)]]

\* BackcastEngine.generate_ai_steps, the reply parsed into steps_data
generate_ai_steps(p, steps_data, t) ==
    [p EXCEPT !.steps = AiRenumbered(Reversed(AiSteps(steps_data, t))),
              !.updated_at = t]

\* the phases of the template generator generate_ai_steps falls back to
FallbackPhases == 5

----------------------------------------------------------------------------
(* SpecAi: the server asks for generated steps for the plan it created,      *)
(* while time passes; the reply is any list of step objects, or the call     *)
(* falls back to the template generator.                                     *)

\* the "dependencies" a step object of the reply declares: indices from 0
AiDeps == {<<>>, <<0>>, <<1>>, <<0, 1>>, <<2>>}

\* the step objects of a reply: with or without the key "dependencies"
AiStepData ==
    {[key \in {"dependencies"} |-> deps] : deps \in AiDeps}
        \cup {[key \in {} |-> <<>>]}

\* the lists json.loads returns
AiReplies == UNION {[1 .. n -> AiStepData] : n \in 0 .. MaxAiSteps}

\* generate_ai_steps(current_plan) for the plan create_plan returned
AiGenerate ==
    /\ plan.steps = <<>>
    /\ \E steps_data \in AiReplies :
          /\ plan' = generate_ai_steps(plan, steps_data, now)
          /\ Performed("generate_ai_steps", 0, steps_data)
    /\ UNCHANGED <<now, disk, saved>>

\* the same call without the library or the key, or with a reply that raises
AiFallback ==
    /\ plan.steps = <<>>
    /\ plan' = generate_steps(plan, FallbackPhases, now)
    /\ Performed("generate_steps", 0, FallbackPhases)
    /\ UNCHANGED <<now, disk, saved>>

AiNext ==
    \/ AiGenerate
    \/ AiFallback
    \/ Tick

SpecAi == Init /\ [][AiNext]_vars

----------------------------------------------------------------------------
(* What the claims speak of, stated apart from the code's computations *)

Indices(steps) == [i \in DOMAIN steps |-> i]

\* the step at i names, in its dependencies, the id of the step at j
DependsOn(steps, i, j) ==
    \E k \in DOMAIN steps[i].dependencies : steps[i].dependencies[k] = steps[j].id

RECURSIVE ReachableIn(_, _, _)
\* the steps reached from those of from by at most n dependency links
ReachableIn(steps, from, n) ==
    IF n = 0 THEN from
    ELSE LET r == ReachableIn(steps, from, n - 1)
         IN r \cup {j \in DOMAIN steps : \E i \in r : DependsOn(steps, i, j)}

\* the step at i is on a cycle of the dependency relation
OnCycle(steps, i) ==
    i \in ReachableIn(steps, {j \in DOMAIN steps : DependsOn(steps, i, j)},
                      Len(steps))

HasCycle(steps) == \E i \in DOMAIN steps : OnCycle(steps, i)

\* every dependency id is the id of a step of the plan
AllResolve(steps) ==
    \A i \in DOMAIN steps : \A k \in DOMAIN steps[i].dependencies :
        \E j \in DOMAIN steps : steps[j].id = steps[i].dependencies[k]

UniqueIds(steps) ==
    \A i, j \in DOMAIN steps : steps[i].id = steps[j].id => i = j

RECURSIVE Depth(_, _)
\* depth(s) = 1 if s has no dependencies, else 1 + max(depth(d)) over the
\* steps d its dependencies name (defined when the plan has no cycle)
Depth(steps, i) ==
    LET ds == {j \in DOMAIN steps : DependsOn(steps, i, j)}
    IN IF ds = {} THEN 1
       ELSE 1 + MaxOf({Depth(steps, j) : j \in ds}, 0)

MaxDepth(steps) == MaxOf({Depth(steps, i) : i \in DOMAIN steps}, 0)

\* C1: for every plan, the empty one included, calculate_progress returns
\* completed, in_progress, blocked, not_started and total, and
\* completed + in_progress + blocked + not_started = total; for total = 0
\* all of them, and percent, are 0.
C1_ProgressCountsSumToTotal ==
    LET r == calculate_progress(plan)
    IN /\ {"completed", "in_progress", "blocked", "not_started", "total"}
            \subseteq DOMAIN r
       /\ r.completed + r.in_progress + r.blocked + r.not_started = r.total
       /\ r.total = Len(plan.steps)
       /\ r.total = 0 =>
            /\ r.completed = 0 /\ r.in_progress = 0 /\ r.blocked = 0
            /\ r.not_started = 0 /\ r.percent = 0

\* C5: for every acyclic plan whose dependency ids all resolve,
\* get_critical_path returns, in plan order, exactly the steps whose depth
\* is the maximum depth of the plan.
C5_CriticalPathIsMaxDepth ==
    (~HasCycle(plan.steps) /\ AllResolve(plan.steps)) =>
        /\ get_critical_path(plan).raises = ""
        /\ critical_indices(plan.steps) =
             SelectSeq(Indices(plan.steps),
                       LAMBDA i : Depth(plan.steps, i) = MaxDepth(plan.steps))

\* C7: when the dependency relation has a cycle, get_critical_path ends by
\* signalling a cyclic-dependency error; it does not recurse without bound
\* and returns no depth-based result.
C7_CycleIsSignalled ==
    HasCycle(plan.steps) =>
        get_critical_path(plan).raises = "CyclicDependencyError"

\* the step at i has dependencies, and none of them is the id of a step
OnlyUnknownDeps(steps, i) ==
    /\ steps[i].dependencies # <<>>
    /\ \A j \in DOMAIN steps : ~DependsOn(steps, i, j)

\* the steps with the dependency ids that match no step removed
WithoutUnknownDeps(steps) ==
    [i \in DOMAIN steps |->
       [steps[i] EXCEPT !.dependencies =
          SelectSeq(@, LAMBDA d : \E j \in DOMAIN steps : steps[j].id = d)]]

\* C8: in get_critical_path a dependency id that matches no step adds no
\* depth: a step whose dependencies are all unknown ids has depth 1, and the
\* critical path is the one of the plan without the unknown ids.
C8_UnknownDependencyAddsNoDepth ==
    ~path_lengths(plan.steps).overflow =>
        /\ \A i \in DOMAIN plan.steps :
              OnlyUnknownDeps(plan.steps, i) =>
                  path_lengths(plan.steps).lengths[plan.steps[i].id] = 1
        /\ ~path_lengths(WithoutUnknownDeps(plan.steps)).overflow
        /\ critical_indices(plan.steps) =
             critical_indices(WithoutUnknownDeps(plan.steps))

\* the steps that exist, are named by the dependencies of the step at i and
\* are not completed
UnmetDeps(steps, i) ==
    {j \in DOMAIN steps : DependsOn(steps, i, j) /\ steps[j].status # "COMPLETED"}

\* C9: get_blockers returns, in plan order, one entry for each blocked step
\* with at least one dependency that is an existing, not completed step; the
\* entry pairs the step with exactly those steps.
C9_BlockersAreUnmetDependencies ==
    LET b == blocker_indices(plan.steps)
    IN /\ [k \in DOMAIN b |-> b[k].step] =
            SelectSeq(Indices(plan.steps),
                      LAMBDA i : plan.steps[i].status = "BLOCKED"
                                 /\ UnmetDeps(plan.steps, i) # {})
       /\ \A k \in DOMAIN b :
            Range(b[k].incomplete_deps) = UnmetDeps(plan.steps, b[k].step)

\* the step at i may start: it is not_started or in_progress and each of its
\* dependency ids is the id of a completed step of the plan
MayStart(steps, i) ==
    /\ steps[i].status = "NOT_STARTED" \/ steps[i].status = "IN_PROGRESS"
    /\ \A k \in DOMAIN steps[i].dependencies :
          \E j \in DOMAIN steps :
              /\ steps[j].id = steps[i].dependencies[k]
              /\ steps[j].status = "COMPLETED"

\* C3: get_next_actions returns exactly the steps that are not_started or
\* in_progress and whose every dependency id is the id of a completed step
\* of the plan, each of them once; a dependency id that matches no step
\* keeps the step out, and a step without dependencies that is not_started
\* or in_progress is in the result.
C3_NextActionsAreTheReadySteps ==
    LET idx == next_action_indices(plan.steps)
    IN /\ Range(idx) = {i \in DOMAIN plan.steps : MayStart(plan.steps, i)}
       /\ Len(idx) = Cardinality(Range(idx))
       /\ Len(get_next_actions(plan)) = Len(idx)
       /\ \A k \in DOMAIN idx : get_next_actions(plan)[k] = plan.steps[idx[k]]

\* a not_started step is kept out by a dependency id that matches no step,
\* while a step without dependencies is returned
C3_Witness ==
    LET steps == plan.steps
        idx == next_action_indices(steps)
    IN /\ \E i \in DOMAIN steps :
            /\ steps[i].status = "NOT_STARTED"
            /\ \E k \in DOMAIN steps[i].dependencies :
                  \A j \in DOMAIN steps : steps[j].id # steps[i].dependencies[k]
            /\ i \notin Range(idx)
       /\ \E i \in Range(idx) : steps[i].dependencies = <<>>

\* the rank the claim gives a priority: critical, high, medium, low
PriorityRank(pr) ==
    IF pr = "CRITICAL" THEN 1
    ELSE IF pr = "HIGH" THEN 2
    ELSE IF pr = "MEDIUM" THEN 3
    ELSE 4

\* C4: the sequence get_next_actions returns is ordered critical, high,
\* medium, low; two ready steps of equal priority keep the order they have
\* in plan.steps; the result is empty when no step is ready.
C4_NextActionsOrderedAndStable ==
    LET steps == plan.steps
        idx == next_action_indices(steps)
    IN /\ \A k, l \in DOMAIN idx :
            k < l =>
              \/ PriorityRank(steps[idx[k]].priority)
                    < PriorityRank(steps[idx[l]].priority)
              \/ /\ steps[idx[k]].priority = steps[idx[l]].priority
                 /\ idx[k] < idx[l]
       /\ (\A i \in DOMAIN steps : ~MayStart(steps, i)) =>
              get_next_actions(plan) = <<>>

\* a ready step of higher priority is returned before a ready step that
\* precedes it in the plan
C4_Witness ==
    LET steps == plan.steps
        idx == next_action_indices(steps)
    IN \E k, l \in DOMAIN idx :
         /\ k < l
         /\ idx[k] > idx[l]
         /\ steps[idx[k]].priority = "CRITICAL"
         /\ steps[idx[l]].priority # "CRITICAL"

\* C2: after delete_step(plan, id) no step with that id remains and no
\* remaining step's dependencies contains id; so if every dependency id
\* resolved before the deletion, every dependency id resolves after it.
C2_DeleteLeavesNoDanglingReference ==
    last.op = "delete_step" =>
        /\ \A i \in DOMAIN plan.steps :
              /\ plan.steps[i].id # last.step_id
              /\ last.step_id \notin Range(plan.steps[i].dependencies)
        /\ AllResolve(prev.steps) => AllResolve(plan.steps)

\* a step was deleted that another step, which remains, depended on, in a
\* plan whose dependency ids all resolved
C2_Witness ==
    /\ last.op = "delete_step"
    /\ AllResolve(prev.steps)
    /\ \E i \in DOMAIN prev.steps : prev.steps[i].id = last.step_id
    /\ \E i \in DOMAIN prev.steps :
          /\ prev.steps[i].id # last.step_id
          /\ last.step_id \in Range(prev.steps[i].dependencies)
    /\ plan.steps # <<>>

StatusOf(i) == plan.steps[i].status

\* C6: in the plan of four not_started steps of equal priority with
\* dependencies 2 on 1, 3 on 1, 4 on 2 and 3: get_next_actions returns
\* [step 1]; with step 1 marked completed it returns [step 2, step 3] and
\* step 4 is not ready; step 4 is ready only when steps 2 and 3 are both
\* completed; get_critical_path returns [step 4] throughout.
C6_FourStepScenario ==
    ScenarioBuilt =>
        /\ (\A i \in 1 .. 4 : StatusOf(i) = "NOT_STARTED") =>
              get_next_actions(plan) = <<plan.steps[1]>>
        /\ (/\ StatusOf(1) = "COMPLETED"
            /\ \A i \in 2 .. 4 : StatusOf(i) = "NOT_STARTED") =>
              get_next_actions(plan) = <<plan.steps[2], plan.steps[3]>>
        /\ 4 \in Range(next_action_indices(plan.steps)) =>
              StatusOf(2) = "COMPLETED" /\ StatusOf(3) = "COMPLETED"
        /\ get_critical_path(plan) = [raises |-> "", steps |-> <<plan.steps[4]>>]
        /\ \A i \in 1 .. 4 : plan.steps[i].id = i

\* steps 1, 2 and 3 were marked completed and step 4 is the next action
C6_Witness ==
    /\ ScenarioBuilt
    /\ \A i \in 1 .. 3 :
          StatusOf(i) = "COMPLETED" /\ plan.steps[i].completed_at # NoneTime
    /\ get_next_actions(plan) = <<plan.steps[4]>>

\* C10: load_plan(name) after save_plan(plan, name) returns a plan equal to
\* the saved plan in every field: the outcome, created_at and updated_at of
\* the plan and id, status, dependencies, risks, created_at, updated_at and
\* completed_at of each step.
C10_LoadReturnsTheSavedPlan ==
    last.op = "load_plan" => plan = saved[last.name][1]

----------------------------------------------------------------------------
(* Claims on the plan kept by add_step, update_step and delete_step *)

\* C11: in every state reachable from an empty plan by add_step, update_step
\* and delete_step (add_step with a caller-supplied id included), no two
\* steps of the plan have the same id.
C11_StepIdsAreUnique ==
    UniqueIds(plan.steps)

\* C12: no step's dependencies contains the step's own id, also when the id
\* is the one add_step assigns to a step submitted with an unset id.
C12_NoStepDependsOnItself ==
    \A i \in DOMAIN plan.steps :
        plan.steps[i].id \notin Range(plan.steps[i].dependencies)

\* C13: after every mutator every id in a step's dependencies is the id of a
\* step currently in the plan.
C13_EveryDependencyResolves ==
    \A i \in DOMAIN plan.steps :
        Range(plan.steps[i].dependencies) \subseteq StepIds(plan)


\* the steps of the plan the last call was made on that the call kept, in
\* their order: all of them, but for delete_step those with another id
KeptSteps ==
    IF last.op = "delete_step"
    THEN SelectSeq(prev.steps, LAMBDA s : s.id # last.step_id)
    ELSE prev.steps

\* C14: for a step created not_started and changed only through update_step,
\* completed_at is set exactly while the status is completed: an update to
\* completed sets it, an update of a completed step to another status
\* clears it.
C14_CompletedAtSetExactlyWhileCompleted ==
    \A i \in DOMAIN plan.steps :
        (plan.steps[i].completed_at # NoneTime)
            <=> (plan.steps[i].status = "COMPLETED")

\* C19: whenever update_step or delete_step changes any field of a step,
\* that step's updated_at is the time of the call; so a step whose
\* dependencies lose an id through delete_step's cascade has a new updated_at.
C19_ChangedStepIsRestamped ==
    last.op \in {"update_step", "delete_step"} =>
        \A i \in DOMAIN plan.steps :
            plan.steps[i] # KeptSteps[i] => plan.steps[i].updated_at = last.at


\* the plan the last call was made on has no step with the id the call names
NamesNoStep == \A i \in DOMAIN prev.steps : prev.steps[i].id # last.step_id

\* the position in the plan of the step update_step changes: the first with
\* the id the call names
Target ==
    CHOOSE i \in DOMAIN prev.steps :
        /\ prev.steps[i].id = last.step_id
        /\ \A j \in DOMAIN prev.steps : prev.steps[j].id = last.step_id => i <= j

\* C15: update_step with an id that matches no step leaves the sequence of
\* steps and every field of every step unchanged; only plan.updated_at is
\* refreshed, to the time of the call.
C15_UpdateOfAbsentIdOnlyStampsThePlan ==
    (last.op = "update_step" /\ NamesNoStep) =>
        /\ plan.steps = prev.steps
        /\ plan.outcome = prev.outcome
        /\ plan.created_at = prev.created_at
        /\ plan.updated_at = last.at

\* an update of an absent id was made on a plan with steps, at a later time
\* than the plan's last change
C15_Witness ==
    /\ last.op = "update_step"
    /\ NamesNoStep
    /\ Len(prev.steps) >= 1
    /\ "status" \in DOMAIN last.arg
    /\ prev.updated_at < last.at

\* the fields update_step may write on the step it finds
Writable ==
    DOMAIN last.arg \cup {"updated_at"}
      \cup (IF "status" \in DOMAIN last.arg /\ last.arg["status"] = "COMPLETED"
            THEN {"completed_at"} ELSE {})

\* C16: update_step on an id that exists changes, on the first step with that
\* id, only the fields named in the changes plus updated_at (and completed_at
\* when the change sets status to completed): a named field has the value
\* given, updated_at (and completed_at then) the time of the call; every
\* other field of the step, every other step and the order of the steps are
\* unchanged.
C16_UpdateChangesOnlyTheNamedFields ==
    (last.op = "update_step" /\ ~NamesNoStep) =>
        /\ Len(plan.steps) = Len(prev.steps)
        /\ \A i \in DOMAIN prev.steps : i # Target => plan.steps[i] = prev.steps[i]
        /\ DOMAIN plan.steps[Target] = DOMAIN prev.steps[Target]
        /\ \A f \in DOMAIN prev.steps[Target] :
              /\ f \notin Writable => plan.steps[Target][f] = prev.steps[Target][f]
              /\ f \in DOMAIN last.arg \ {"updated_at", "completed_at"}
                    => plan.steps[Target][f] = last.arg[f]
        /\ plan.steps[Target].updated_at = last.at
        /\ "completed_at" \in Writable => plan.steps[Target].completed_at = last.at
        /\ plan.outcome = prev.outcome
        /\ plan.created_at = prev.created_at

\* two fields of the first of two steps were changed, at a later time than
\* the step's last change
C16_Witness ==
    /\ last.op = "update_step"
    /\ ~NamesNoStep
    /\ Len(prev.steps) >= 2
    /\ Target = 1
    /\ DOMAIN last.arg = {"status", "priority"}
    /\ prev.steps[Target].priority # last.arg["priority"]
    /\ prev.steps[Target].updated_at < last.at

\* C17: add_step gives a step submitted with an unset (0) id the id (maximum
\* id among the plan's steps, or 0 for a plan with no steps) + 1 and keeps a
\* non-zero id; the step becomes the last element of plan.steps, the steps
\* already there are unchanged, and plan.updated_at is refreshed.
C17_AddStepAppendsAndNumbers ==
    last.op = "add_step" =>
        LET n == Len(prev.steps)
            ids == {prev.steps[i].id : i \in DOMAIN prev.steps}
            top == IF ids = {} THEN 0
                   ELSE CHOOSE m \in ids : \A x \in ids : x <= m
            id == IF last.arg.id = 0 THEN top + 1 ELSE last.arg.id
        IN /\ Len(plan.steps) = n + 1
           /\ \A i \in 1 .. n : plan.steps[i] = prev.steps[i]
           /\ plan.steps[n + 1] = [last.arg EXCEPT !.id = id]
           /\ plan.updated_at = last.at
           /\ plan.outcome = prev.outcome
           /\ plan.created_at = prev.created_at

\* a step with an unset id was added to a plan whose greatest id is not the
\* number of its steps, at a later time than the plan's last change
C17_Witness ==
    /\ last.op = "add_step"
    /\ last.arg.id = 0
    /\ Len(prev.steps) = 1
    /\ prev.steps[1].id = 2
    /\ plan.steps[2].id = 3
    /\ prev.updated_at < last.at

\* C20: delete_step with an id that matches no step leaves the steps as they
\* are (sequence and dependencies unchanged), so get_next_actions returns the
\* same result before and after.
C20_DeleteOfAbsentIdKeepsTheSteps ==
    (last.op = "delete_step" /\ NamesNoStep) =>
        /\ plan.steps = prev.steps
        /\ get_next_actions(plan) = get_next_actions(prev)


\* C18: save_plan is all-or-nothing: when a save to a name that already
\* holds a document fails or is interrupted, the document stored under the
\* name is still the last one saved whole, and no load finds an empty or
\* partly written document.
C18_SaveIsAllOrNothing ==
    /\ \A n \in Names :
          saved[n] # <<>> => disk[n] = <<plan_dict(saved[n][1])>>
    /\ last.op # "load_plan raised"


----------------------------------------------------------------------------
(* Claims on the generated scaffold *)

\* the plan is the one generate_steps has just returned
JustGenerated == last.op = "generate_steps"

\* C21: generate_steps(plan, N) for N >= 1 replaces plan.steps with exactly
\* 4N + 2 steps, all not_started, with ids 1, 2, ..., 4N + 2 in plan order;
\* the first step is the Initialize action with no dependencies and the last
\* step is the terminal outcome milestone.
C21_ScaffoldShape ==
    JustGenerated =>
        LET n == Len(plan.steps)
        IN /\ n = 4 * last.arg + 2
           /\ \A i \in 1 .. n :
                 /\ plan.steps[i].id = i
                 /\ plan.steps[i].status = "NOT_STARTED"
           /\ plan.steps[1].title = <<"Initialize Project">>
           /\ plan.steps[1].type = "ACTION"
           /\ plan.steps[1].dependencies = <<>>
           /\ plan.steps[n].title = <<"Achieve: ", plan.outcome.title>>
           /\ plan.steps[n].type = "MILESTONE"

\* a scaffold of more than one phase was generated
C21_Witness ==
    /\ JustGenerated
    /\ last.arg = MaxPhases
    /\ Len(plan.steps) > 6


\* the list generate_steps had built before it reversed it; the step at
\* position a of it is the step at position After(a) of the plan
BeforeReversal == ScaffoldSteps(prev, last.arg, last.at)

After(a) == Len(BeforeReversal) + 1 - a

\* C22: after generate_steps(plan, N) every dependency id of every step is
\* the id of a step of the plan, and the remapping preserves edges: step a
\* depended on step b before the reversal if and only if the renumbered a
\* depends on the renumbered b afterwards; no id from before the reversal
\* passes through unmapped.
C22_RemappingPreservesEdges ==
    JustGenerated =>
        /\ Len(plan.steps) = Len(BeforeReversal)
        /\ \A i \in DOMAIN plan.steps :
              Range(plan.steps[i].dependencies) \subseteq
                  {plan.steps[j].id : j \in DOMAIN plan.steps}
        /\ \A a \in DOMAIN BeforeReversal :
              /\ plan.steps[After(a)].title = BeforeReversal[a].title
              /\ Len(plan.steps[After(a)].dependencies)
                    = Len(BeforeReversal[a].dependencies)
              /\ \A b \in DOMAIN BeforeReversal :
                    DependsOn(BeforeReversal, a, b)
                        <=> DependsOn(plan.steps, After(a), After(b))

\* a scaffold was generated in which a step's dependency id is not the id
\* the step named before the reversal
C22_Witness ==
    /\ JustGenerated
    /\ last.arg = MaxPhases
    /\ \E a \in DOMAIN BeforeReversal :
          /\ BeforeReversal[a].dependencies # <<>>
          /\ plan.steps[After(a)].dependencies # BeforeReversal[a].dependencies


\* C23: for every N >= 1 the plan generate_steps(plan, N) returns has an
\* acyclic dependency relation with no step depending on itself, so
\* get_critical_path terminates on it with a result.
C23_ScaffoldIsAcyclic ==
    JustGenerated =>
        /\ ~HasCycle(plan.steps)
        /\ \A i \in DOMAIN plan.steps :
              plan.steps[i].id \notin Range(plan.steps[i].dependencies)
        /\ get_critical_path(plan).raises = ""


\* every step of the generated plan is completed (progress 100%)
AllCompleted ==
    /\ plan.steps # <<>>
    /\ \A i \in DOMAIN plan.steps : plan.steps[i].status = "COMPLETED"

\* C24: starting from the plan generate_steps(plan, N) returns, for any
\* N >= 1, a user who keeps marking a step returned by get_next_actions as
\* completed eventually reaches a state in which every step is completed;
\* get_next_actions is never empty while a step is not completed.
C24_ScaffoldCanBeCompleted ==
    /\ [](plan.steps # <<>> /\ ~AllCompleted => get_next_actions(plan) # <<>>)
    /\ (plan.steps # <<>>) ~> AllCompleted


\* C25: in the plan generate_steps returns the terminal outcome milestone
\* (the last step) is the last to become ready: get_next_actions does not
\* return it in the freshly generated plan, nor in any later state in which
\* some other step is not completed.
C25_OutcomeMilestoneIsReadyLast ==
    LET n == Len(plan.steps)
    IN (\E i \in 1 .. n - 1 : plan.steps[i].status # "COMPLETED")
          => \A s \in Range(get_next_actions(plan)) : s.id # n


----------------------------------------------------------------------------
(* Claims on working through a plan *)

\* update_step has just marked a step of the plan completed
JustCompleted ==
    /\ last.op = "update_step"
    /\ last.arg = ("status" :> "COMPLETED")
    /\ ~NamesNoStep

\* the position of the step at index i in a result given as indices, 0 if
\* it is not in it
PositionIn(result, i) ==
    IF \E k \in DOMAIN result : result[k] = i
    THEN CHOOSE k \in DOMAIN result : result[k] = i
    ELSE 0

\* C27: readiness is monotone under completion: when update_step marks step
\* s completed, every step other than s that get_next_actions returned
\* before the call is still returned after it, in the same relative order;
\* only s leaves the result and only steps depending on s can enter it.
C27_ReadinessIsMonotone ==
    JustCompleted =>
        LET before == next_action_indices(prev.steps)
            after == next_action_indices(plan.steps)
            s == Target
        IN /\ \A i \in Range(before) \ {s} : i \in Range(after)
           /\ \A i, j \in Range(before) \ {s} :
                 PositionIn(before, i) < PositionIn(before, j)
                     => PositionIn(after, i) < PositionIn(after, j)
           /\ s \notin Range(after)
           /\ \A i \in Range(after) \ Range(before) : DependsOn(prev.steps, i, s)

\* a returned step was marked completed: it left the result, another step
\* stayed in it and a step depending on it entered
C27_Witness ==
    /\ JustCompleted
    /\ Target \in Range(next_action_indices(prev.steps))
    /\ \E i \in Range(next_action_indices(prev.steps)) \ {Target} :
          i \in Range(next_action_indices(plan.steps))
    /\ \E i \in Range(next_action_indices(plan.steps)) :
          i \notin Range(next_action_indices(prev.steps))


\* the plans C26 speaks of: the dependency relation is acyclic, every
\* dependency id is the id of a step, every status is not_started,
\* in_progress or completed
WorkablePlan ==
    /\ ~HasCycle(plan.steps)
    /\ AllResolve(plan.steps)
    /\ \A i \in DOMAIN plan.steps :
          plan.steps[i].status \in {"NOT_STARTED", "IN_PROGRESS", "COMPLETED"}

EveryStepCompleted ==
    \A i \in DOMAIN plan.steps : plan.steps[i].status = "COMPLETED"

\* C26: for any plan whose dependency relation is acyclic, whose dependency
\* ids all resolve and whose steps are all not_started, in_progress or
\* completed: get_next_actions is non-empty whenever some step is not
\* completed, and repeatedly marking a returned step completed with
\* update_step eventually completes every step.
C26_WorkablePlanGetsCompleted ==
    /\ [](WorkablePlan /\ ~EveryStepCompleted => get_next_actions(plan) # <<>>)
    /\ WorkablePlan ~> EveryStepCompleted


\* C28: if every add_step call passes a step with an unset (0) id and
\* update_step never changes an id, then after any interleaving of add_step,
\* update_step and delete_step from an empty plan all step ids are positive
\* and pairwise distinct; an id freed by delete_step may be assigned again,
\* but never while a step holding it is in the plan.
C28_AssignedIdsArePositiveAndDistinct ==
    /\ \A i \in DOMAIN plan.steps : plan.steps[i].id > 0
    /\ \A i, j \in DOMAIN plan.steps :
          i # j => plan.steps[i].id # plan.steps[j].id

\* add_step has assigned an id to a step of a plan from which a step with a
\* smaller id had been deleted and in which a step had been updated
C28_Witness ==
    /\ last.op = "add_step"
    /\ Len(plan.steps) = 2
    /\ plan.steps[1].id = 2
    /\ plan.steps[2].id = 3
    /\ plan.steps[1].status = "COMPLETED"


\* the elements of seq at the positions of keep, in their order
Thinned(seq, keep) ==
    [k \in 1 .. Cardinality(keep) |->
        seq[CHOOSE i \in keep : Cardinality({j \in keep : j <= i}) = k]]

\* C29: delete_step(plan, id) keeps the remaining steps in their original
\* relative order and changes no field of a remaining step other than
\* dependencies, from which exactly the occurrences of id are removed while
\* all other dependency ids stay in their original order.
C29_DeleteChangesOnlyDependencies ==
    last.op = "delete_step" =>
        LET id == last.step_id
            remaining == Thinned(prev.steps,
                                 {i \in DOMAIN prev.steps : prev.steps[i].id # id})
        IN /\ Len(plan.steps) = Len(remaining)
           /\ \A k \in DOMAIN remaining :
                 plan.steps[k] =
                     [remaining[k] EXCEPT !.dependencies =
                         Thinned(@, {m \in DOMAIN @ : @[m] # id})]

\* the first of three steps was deleted; the second named it twice around
\* another id and was last changed earlier, the third named it between two
\* other ids
C29_Witness ==
    /\ last.op = "delete_step"
    /\ Len(plan.steps) = 2
    /\ Len(prev.steps) = 3
    /\ plan.steps[1].id = 2
    /\ plan.steps[1].dependencies = <<2>>
    /\ plan.steps[1].updated_at < last.at
    /\ plan.steps[2].dependencies = <<2, 3>>


\* the reply converted by the last call, and the number of its step objects
DeclaredBy(i) ==
    Range(DictGet(last.arg[i + 1], "dependencies", <<>>))

(* C30: after generate_ai_steps has converted a reply of n step objects,     *)
(* the step declared at index i (from 0), which has the new id n - i, lists  *)
(* the new id n - j of every lower index j < i it declared a dependency on.  *)
C30_DeclaredDependenciesSurvive ==
    last.op = "generate_ai_steps" =>
        LET n == Len(last.arg)
        IN \A i \in 0 .. n - 1 : \A j \in 0 .. i - 1 :
              j \in DeclaredBy(i) =>
                  \E k \in DOMAIN plan.steps :
                      /\ plan.steps[k].id = n - i
                      /\ n - j \in Range(plan.steps[k].dependencies)

============================================================================
